---------------------------- MODULE Spec2Model ----------------------------
(***************************************************************************)
(* Cash-flow engine of the bond calculator (src/unnamed/part_003, the      *)
(* calculator module) over the reference table of src/cashflow/bondData.ts.*)
(*                                                                         *)
(* Dates are JavaScript Date instants at 00:00 UTC, held as the number of  *)
(* days since 1970-01-01 (getTime() / 86400000).  Amounts, percentages and *)
(* rates are exact rationals <<numerator, denominator>> in lowest terms;   *)
(* the rounding of IEEE doubles is not modelled.                           *)
(***************************************************************************)
EXTENDS Integers, Sequences, FiniteSets, Bags, TLC

VARIABLES
    tz,                   \* sign of the process's local UTC offset: -1 west, 0 UTC, 1 east
    pc,                   \* position of the running call
    call,                 \* the arguments of the running call
    currentDate,          \* calculateCashFlows: month-walk cursor
    allPaymentDates,      \* calculateCashFlows: Set<string> of ISO dates
    sortedDates,          \* calculateCashFlows: sorted payment dates
    idx,                  \* calculateCashFlows: position of the for-of loop in sortedDates
    outstandingPrincipal, \* calculateCashFlows: running outstanding principal
    lastPaymentDate,      \* calculateCashFlows: previous payment date
    cashFlows,            \* calculateCashFlows: payments emitted so far
    batch,                \* calculateAllCashFlows: its arguments, forEach position and allCashFlows
    pos,                  \* aggregateCashFlows, calculatePresentValue: position of the forEach
    aggregated,           \* aggregateCashFlows: the buckets, in the order they were created
    presentValue,         \* calculatePresentValue: the running sum
    earlier,              \* what a caller keeps of an earlier call: its arguments and result
    ret                   \* value returned (or error thrown) by the last call

vars == <<tz, pc, call, currentDate, allPaymentDates, sortedDates, idx,
          outstandingPrincipal, lastPaymentDate, cashFlows, batch,
          pos, aggregated, presentValue, earlier, ret>>

\* the locals of aggregateCashFlows and calculatePresentValue
folds == <<pos, aggregated, presentValue>>

-----------------------------------------------------------------------------
(* Numbers: exact rationals.                                               *)

RECURSIVE Gcd(_, _)
Gcd(a, b) == IF b = 0 THEN a ELSE Gcd(b, a % b)

Abs(a) == IF a < 0 THEN -a ELSE a

\* n/d in lowest terms, d > 0
Rat(n, d) ==
    LET g == Gcd(Abs(n), Abs(d))
        s == IF d < 0 THEN -1 ELSE 1
    IN  <<(s * n) \div g, (s * d) \div g>>

Num(r) == r[1]
Den(r) == r[2]
RInt(n) == <<n, 1>>
Zero == RInt(0)
One == RInt(1)

RAdd(a, b) ==
    LET g == Gcd(Den(a), Den(b))
    IN  Rat(Num(a) * (Den(b) \div g) + Num(b) * (Den(a) \div g),
            (Den(a) \div g) * Den(b))

RNeg(a) == <<-Num(a), Den(a)>>
RSub(a, b) == RAdd(a, RNeg(b))

RMul(a, b) ==
    LET g1 == Gcd(Abs(Num(a)), Den(b))
        g2 == Gcd(Abs(Num(b)), Den(a))
        h1 == IF g1 = 0 THEN 1 ELSE g1
        h2 == IF g2 = 0 THEN 1 ELSE g2
    IN  Rat((Num(a) \div h1) * (Num(b) \div h2),
            (Den(a) \div h2) * (Den(b) \div h1))

RLess(a, b) == Num(a) * Den(b) < Num(b) * Den(a)
RPos(a) == Num(a) > 0

-----------------------------------------------------------------------------
(* Dates: the proleptic Gregorian calendar of Date.UTC and getUTC*.        *)

\* Date.UTC(year, monthIndex, day) / 86400000, monthIndex 0-based and allowed
\* to run past 11 (it carries into the year)
DateUTC(year, monthIndex, day) ==
    LET yy  == year + (monthIndex \div 12)
        m   == (monthIndex % 12) + 1
        y   == IF m <= 2 THEN yy - 1 ELSE yy
        era == y \div 400
        yoe == y - era * 400
        mp  == IF m > 2 THEN m - 3 ELSE m + 9
        doy == (153 * mp + 2) \div 5 + day - 1
        doe == yoe * 365 + yoe \div 4 - yoe \div 100 + doy
    IN  era * 146097 + doe - 719468

\* <<year, monthIndex, day>> of an instant, in UTC
Civil(days) ==
    LET z   == days + 719468
        era == z \div 146097
        doe == z - era * 146097
        yoe == (doe - doe \div 1460 + doe \div 36524 - doe \div 146096) \div 365
        doy == doe - (365 * yoe + yoe \div 4 - yoe \div 100)
        mp  == (5 * doy + 2) \div 153
        d   == doy - (153 * mp + 2) \div 5 + 1
        m   == IF mp < 10 THEN mp + 3 ELSE mp - 9
        y   == yoe + era * 400 + (IF m <= 2 THEN 1 ELSE 0)
    IN  <<y, m - 1, d>>

getUTCFullYear(date) == Civil(date)[1]
getUTCMonth(date) == Civil(date)[2]
getUTCDate(date) == Civil(date)[3]

\* Date.prototype.getMonth: the month of the instant in the local time zone.
\* An instant at 00:00 UTC is still on the previous calendar day west of
\* Greenwich and on the same day at or east of it.
getMonth(date, zone) ==
    IF zone < 0 THEN getUTCMonth(date - 1) ELSE getUTCMonth(date)

\* Date.prototype.toISOString and new Date(isoString): the string is kept as
\* its year-month-day fields
toISOString(date) == <<getUTCFullYear(date), getUTCMonth(date) + 1, getUTCDate(date)>>
parseISO(str) == DateUTC(str[1], str[2] - 1, str[3])

\* createDate of bondData.ts: month is 1-based
createDate(year, month, day) == DateUTC(year, month - 1, day)

-----------------------------------------------------------------------------
(* Reference data: src/cashflow/bondData.ts.                               *)

\* a rate or percentage written as a decimal literal with five decimals
Dec5(n) == Rat(n, 100000)

Period(s, e, r) == [startDate |-> s, endDate |-> e, rate |-> r]
Amort(d, p) == [date |-> d, percentage |-> p]

ISSUE_DATE == createDate(2020, 9, 4)

INTEREST_PAYMENT_MONTHS == <<1, 7>>

\* Array.from({ length: n }, (_, i) => ({ date: createDate(y0 + floor(i / 2),
\* i % 2 === 0 ? mEven : mOdd, 9), percentage: p }))
EqualPaymentsOneShort(n, y0, mEven, mOdd, p) ==
    [k \in 1..(n - 1) |->
        Amort(createDate(y0 + ((k - 1) \div 2),
                         IF (k - 1) % 2 = 0 THEN mEven ELSE mOdd, 9), p)]

EqualPayments(n, y0, mEven, mOdd, p) ==
    [k \in 1..n |->
        Amort(createDate(y0 + ((k - 1) \div 2),
                         IF (k - 1) % 2 = 0 THEN mEven ELSE mOdd, 9), p)]

Bond(id, cur, issue, periods, schedule, months) ==
    [id |-> id, currency |-> cur, issueDate |-> issue,
     interestRatePeriods |-> periods, amortizationSchedule |-> schedule,
     interestPaymentMonths |-> months]

BondUsd2030 ==
    Bond("USD-STEP-UP-2030", "USD", ISSUE_DATE,
         << Period(ISSUE_DATE, createDate(2021, 7, 9), Dec5(125)),
            Period(createDate(2021, 7, 9), createDate(2023, 7, 9), Dec5(500)),
            Period(createDate(2023, 7, 9), createDate(2027, 7, 9), Dec5(750)),
            Period(createDate(2027, 7, 9), createDate(2030, 7, 9), Dec5(1750)) >>,
         <<Amort(createDate(2024, 7, 9), Dec5(4000))>>
             \o EqualPayments(12, 2025, 1, 7, Dec5(8000)),
         INTEREST_PAYMENT_MONTHS)

BondUsd2035 ==
    Bond("USD-STEP-UP-2035", "USD", ISSUE_DATE,
         << Period(ISSUE_DATE, createDate(2021, 7, 9), Dec5(125)),
            Period(createDate(2021, 7, 9), createDate(2022, 7, 9), Dec5(1125)),
            Period(createDate(2022, 7, 9), createDate(2023, 7, 9), Dec5(1500)),
            Period(createDate(2023, 7, 9), createDate(2024, 7, 9), Dec5(3625)),
            Period(createDate(2024, 7, 9), createDate(2027, 7, 9), Dec5(4125)),
            Period(createDate(2027, 7, 9), createDate(2028, 7, 9), Dec5(4750)),
            Period(createDate(2028, 7, 9), createDate(2035, 7, 9), Dec5(5000)) >>,
         EqualPayments(10, 2031, 1, 7, Dec5(10000)),
         INTEREST_PAYMENT_MONTHS)

BondUsd2038 ==
    Bond("USD-STEP-UP-2038", "USD", ISSUE_DATE,
         << Period(ISSUE_DATE, createDate(2021, 7, 9), Dec5(125)),
            Period(createDate(2021, 7, 9), createDate(2022, 7, 9), Dec5(2000)),
            Period(createDate(2022, 7, 9), createDate(2023, 7, 9), Dec5(3875)),
            Period(createDate(2023, 7, 9), createDate(2024, 7, 9), Dec5(4250)),
            Period(createDate(2024, 7, 9), createDate(2038, 7, 9), Dec5(5000)) >>,
         EqualPayments(22, 2027, 7, 1, Rat(1, 22)),
         INTEREST_PAYMENT_MONTHS)

BondUsd2041 ==
    Bond("USD-STEP-UP-2041", "USD", ISSUE_DATE,
         << Period(ISSUE_DATE, createDate(2021, 7, 9), Dec5(125)),
            Period(createDate(2021, 7, 9), createDate(2022, 7, 9), Dec5(2500)),
            Period(createDate(2022, 7, 9), createDate(2029, 7, 9), Dec5(3500)),
            Period(createDate(2029, 7, 9), createDate(2041, 7, 9), Dec5(4875)) >>,
         EqualPayments(28, 2028, 1, 7, Rat(1, 28)),
         INTEREST_PAYMENT_MONTHS)

BondUsd2046 ==
    Bond("USD-STEP-UP-2046", "USD", ISSUE_DATE,
         << Period(ISSUE_DATE, createDate(2021, 7, 9), Dec5(125)),
            Period(createDate(2021, 7, 9), createDate(2022, 7, 9), Dec5(1125)),
            Period(createDate(2022, 7, 9), createDate(2023, 7, 9), Dec5(1500)),
            Period(createDate(2023, 7, 9), createDate(2024, 7, 9), Dec5(3625)),
            Period(createDate(2024, 7, 9), createDate(2027, 7, 9), Dec5(4125)),
            Period(createDate(2027, 7, 9), createDate(2028, 7, 9), Dec5(4375)),
            Period(createDate(2028, 7, 9), createDate(2046, 7, 9), Dec5(5000)) >>,
         EqualPayments(44, 2025, 1, 7, Rat(1, 44)),
         INTEREST_PAYMENT_MONTHS)

BondEur2030 ==
    Bond("EUR-STEP-UP-2030", "EUR", ISSUE_DATE,
         << Period(ISSUE_DATE, createDate(2030, 7, 9), Dec5(125)) >>,
         <<Amort(createDate(2024, 7, 9), Dec5(4000))>>
             \o EqualPayments(12, 2025, 1, 7, Dec5(8000)),
         INTEREST_PAYMENT_MONTHS)

BONDS == <<BondUsd2030, BondUsd2035, BondUsd2038, BondUsd2041, BondUsd2046,
           BondEur2030>>

getAllBonds == BONDS

Range(seq) == {seq[i] : i \in DOMAIN seq}

-----------------------------------------------------------------------------
(* Rate Resolver and Principal Tracker: src/unnamed/part_003, lines 14-64. *)

Returned(v) == [threw |-> FALSE, value |-> v]
Thrown == [threw |-> TRUE, value |-> <<>>]

\* Array.prototype.find over the rate periods: index of the first period
\* with startDate <= date < endDate, 0 if none (undefined)
FindPeriod(periods, date) ==
    LET InPeriod(i) == date >= periods[i].startDate /\ date < periods[i].endDate
    IN  IF \E i \in DOMAIN periods : InPeriod(i)
        THEN CHOOSE i \in DOMAIN periods :
                 InPeriod(i) /\ \A j \in 1..(i - 1) : ~InPeriod(j)
        ELSE 0

FindPeriodInclusiveEnd(periods, date) ==
    LET InPeriod(i) == date >= periods[i].startDate /\ date <= periods[i].endDate
    IN  IF \E i \in DOMAIN periods : InPeriod(i)
        THEN CHOOSE i \in DOMAIN periods :
                 InPeriod(i) /\ \A j \in 1..(i - 1) : ~InPeriod(j)
        ELSE 0

getInterestRateInclusiveEnd(bond, date) ==
    LET periods == bond.interestRatePeriods
        found == FindPeriodInclusiveEnd(periods, date)
    IN  IF found # 0 THEN Returned(periods[found].rate) ELSE Thrown

getInterestRateLastKnown(bond, date) ==
    LET periods == bond.interestRatePeriods
        found == FindPeriod(periods, date)
    IN  IF found # 0 THEN Returned(periods[found].rate)
        ELSE IF Len(periods) > 0 THEN Returned(periods[Len(periods)].rate)
        ELSE Thrown

getInterestRate(bond, date) ==
    LET periods == bond.interestRatePeriods
        found == FindPeriod(periods, date)
        last == Len(periods)
        period == IF found # 0 THEN found
                  ELSE IF last > 0 /\ date = periods[last].endDate THEN last
                  ELSE 0
    IN  IF period = 0 THEN Thrown ELSE Returned(periods[period].rate)

\* reduce((sum, payment) => sum + payment.percentage, 0) over the entries
\* lo..hi of a list.  Rational addition is associative, so the sum is split
\* in halves to keep the evaluation shallow.
RECURSIVE SumPercentagesIn(_, _, _)
SumPercentagesIn(payments, lo, hi) ==
    IF lo > hi THEN Zero
    ELSE IF lo = hi THEN payments[lo].percentage
    ELSE RAdd(SumPercentagesIn(payments, lo, (lo + hi) \div 2),
              SumPercentagesIn(payments, (lo + hi) \div 2 + 1, hi))

SumPercentages(payments) == SumPercentagesIn(payments, 1, Len(payments))

getOutstandingPrincipalStrictlyBefore(bond, date, initialPrincipal) ==
    LET Due(payment) == payment.date < date
    IN  IF date < bond.issueDate THEN initialPrincipal
        ELSE RMul(initialPrincipal,
                  RSub(One, SumPercentages(SelectSeq(bond.amortizationSchedule, Due))))

getOutstandingPrincipal(bond, date, initialPrincipal) ==
    LET Due(payment) == payment.date <= date
        totalAmortizationPercentage ==
            SumPercentages(SelectSeq(bond.amortizationSchedule, Due))
    IN  IF date < bond.issueDate THEN initialPrincipal
        ELSE RMul(initialPrincipal, RSub(One, totalAmortizationPercentage))

-----
(* Inputs of the checks: the reference table and synthetic instruments.    *)

TZ == {-1, 0, 1}

MaxPrincipal == 2
Principals == {RInt(p) : p \in 1..MaxPrincipal}

FixtureIssueDates == {createDate(2020, 12, 4), createDate(2021, 1, 15)}

FixtureMonths == {<<1, 7>>, <<2, 8>>}

FixtureSchedules ==
    { <<Amort(createDate(2022, 1, 9), One)>>,
      <<Amort(createDate(2021, 7, 9), Rat(1, 2)), Amort(createDate(2022, 1, 9), Rat(1, 2))>>,
      <<Amort(createDate(2021, 10, 15), Rat(1, 4)), Amort(createDate(2022, 1, 9), Rat(3, 4))>>,
      <<Amort(createDate(2022, 1, 9), Rat(3, 4)), Amort(createDate(2021, 7, 9), Rat(1, 4))>>,
      <<Amort(createDate(2021, 7, 9), Rat(1, 2)), Amort(createDate(2022, 1, 9), Rat(1, 4))>>,
      <<Amort(createDate(2021, 7, 31), One)>> }

\* the latest amortization date of a schedule
Maturity(schedule) ==
    CHOOSE d \in {a.date : a \in Range(schedule)} :
        \A a \in Range(schedule) : a.date <= d

\* step-up periods covering [issue, maturity], and the same with a hole in July
FixturePeriods(issue, maturity) ==
    { << Period(issue, createDate(2021, 7, 9), Dec5(1000)),
         Period(createDate(2021, 7, 9), maturity, Dec5(2000)) >>,
      << Period(issue, createDate(2021, 5, 1), Dec5(1000)),
         Period(createDate(2021, 7, 20), maturity, Dec5(2000)) >> }

Fixtures ==
    { Bond("FIXTURE", "USD", issue, periods, schedule, months) :
        <<issue, schedule, months, periods>> \in
            { <<i, s, m, p>> \in
                  FixtureIssueDates \X FixtureSchedules \X FixtureMonths
                      \X UNION { FixturePeriods(i2, Maturity(s2)) :
                                   <<i2, s2>> \in FixtureIssueDates \X FixtureSchedules } :
                  p \in FixturePeriods(i, Maturity(s)) } }

Instruments == Fixtures \cup Range(BONDS)

\* the dates an instrument's data names, each with the day before and after
QueryDates(bond) ==
    LET named == {bond.issueDate}
                 \cup {p.startDate : p \in Range(bond.interestRatePeriods)}
                 \cup {p.endDate : p \in Range(bond.interestRatePeriods)}
                 \cup {a.date : a \in Range(bond.amortizationSchedule)}
    IN  UNION {{d - 1, d, d + 1} : d \in named}

-----------------------------------------------------------------------------
(* Calls of the two resolvers.                                             *)

NoCall == [fn |-> "none"]
NoBatch == [fn |-> "none"]

InitLocals ==
    /\ currentDate = 0
    /\ allPaymentDates = {}
    /\ sortedDates = <<>>
    /\ idx = 0
    /\ outstandingPrincipal = Zero
    /\ lastPaymentDate = 0
    /\ cashFlows = <<>>

InitResolver ==
    /\ tz \in TZ
    /\ pc = "idle"
    /\ call = NoCall
    /\ ret = Returned(<<>>)
    /\ batch = NoBatch
    /\ pos = 0
    /\ aggregated = <<>>
    /\ presentValue = Zero
    /\ earlier = NoCall
    /\ InitLocals

locals == <<currentDate, allPaymentDates, sortedDates, idx,
            outstandingPrincipal, lastPaymentDate, cashFlows>>

CallGetInterestRate ==
    \E bond \in Instruments :
        \E date \in QueryDates(bond) :
            /\ pc = "idle"
            /\ call' = [fn |-> "getInterestRate", bond |-> bond, date |-> date]
            /\ ret' = getInterestRate(bond, date)
            /\ pc' = "returned"
            /\ UNCHANGED <<tz, earlier, folds, batch, locals>>

CallGetOutstandingPrincipal ==
    \E bond \in Instruments :
        \E date \in QueryDates(bond) :
            \E initialPrincipal \in Principals :
                /\ pc = "idle"
                /\ call' = [fn |-> "getOutstandingPrincipal", bond |-> bond,
                            date |-> date, initialPrincipal |-> initialPrincipal]
                /\ ret' = Returned(getOutstandingPrincipal(bond, date, initialPrincipal))
                /\ pc' = "returned"
                /\ UNCHANGED <<tz, earlier, folds, batch, locals>>

NextResolver == CallGetInterestRate \/ CallGetOutstandingPrincipal

SpecResolver == InitResolver /\ [][NextResolver]_vars

-----------------------------------------------------------------------------
(* Cash Flow Generator: calculateCashFlows, src/unnamed/part_003, 74-177.  *)

Max(a, b) == IF a >= b THEN a ELSE b
Min(a, b) == IF a <= b THEN a ELSE b

Includes(array, x) == \E i \in DOMAIN array : array[i] = x

\* lines 91-99: lastDate, from the entry that stands last in the schedule
LastDate(bond, endDate) ==
    LET lastAmortizationDate ==
            bond.amortizationSchedule[Len(bond.amortizationSchedule)].date
    IN  Min(lastAmortizationDate + 1, endDate)

\* lines 103-112: the ISO strings one turn of the while loop adds to the set
InterestDateOf(bond, cursor, startDate, endDate, zone) ==
    LET paymentDate == DateUTC(getUTCFullYear(cursor), getUTCMonth(cursor), 9)
    IN  IF /\ Includes(bond.interestPaymentMonths, getMonth(cursor, zone) + 1)
           /\ paymentDate >= startDate
           /\ paymentDate <= endDate
        THEN {toISOString(paymentDate)}
        ELSE {}

\* lines 115-117: the first day of the next month
NextMonth(cursor) == DateUTC(getUTCFullYear(cursor), getUTCMonth(cursor) + 1, 1)

AmortizationDatesUnfiltered(bond, startDate, endDate) ==
    {toISOString(payment.date) : payment \in Range(bond.amortizationSchedule)}

\* lines 121-125: the amortization dates inside the window
AmortizationDates(bond, startDate, endDate) ==
    {toISOString(payment.date) :
        payment \in {a \in Range(bond.amortizationSchedule) :
                        a.date >= startDate /\ a.date <= endDate}}

SortDatesDescending(strings) ==
    LET dates == {parseISO(str) : str \in strings}
    IN  [k \in 1..Cardinality(dates) |->
            CHOOSE d \in dates : Cardinality({x \in dates : x > d}) = k - 1]

\* lines 128-130: Array.from(set).map(new Date).sort by getTime
SortDates(strings) ==
    LET dates == {parseISO(str) : str \in strings}
    IN  [k \in 1..Cardinality(dates) |->
            CHOOSE d \in dates : Cardinality({x \in dates : x < d}) = k - 1]

\* lines 138-140: find the amortization entry dated exactly paymentDate
FindAmortization(schedule, paymentDate) ==
    IF \E i \in DOMAIN schedule : schedule[i].date = paymentDate
    THEN CHOOSE i \in DOMAIN schedule :
             /\ schedule[i].date = paymentDate
             /\ \A j \in 1..(i - 1) : schedule[j].date # paymentDate
    ELSE 0

\* lines 142-144
PrincipalPayment(bond, initialPrincipal, paymentDate) ==
    LET found == FindAmortization(bond.amortizationSchedule, paymentDate)
    IN  IF found # 0
        THEN RMul(initialPrincipal, bond.amortizationSchedule[found].percentage)
        ELSE Zero

InterestPaymentActual365(outstanding, interestRate, paymentDate, lastPayment) ==
    RMul(RMul(outstanding, interestRate), Rat(paymentDate - lastPayment, 365))

\* lines 148-157: outstandingPrincipal * interestRate * (daysSinceLastPayment / 360)
InterestPayment(outstanding, interestRate, paymentDate, lastPayment) ==
    LET daysSinceLastPayment == paymentDate - lastPayment
    IN  RMul(RMul(outstanding, interestRate), Rat(daysSinceLastPayment, 360))

\* lines 160-167
CashFlowPayment(bond, paymentDate, principalPayment, interestPayment) ==
    [date |-> paymentDate, bondId |-> bond.id, principal |-> principalPayment,
     interest |-> interestPayment,
     total |-> RAdd(principalPayment, interestPayment),
     currency |-> bond.currency]

EnterCalculateCashFlowsReturningEmpty(bond, initialPrincipal, startDate, endDate) ==
    /\ call' = [fn |-> "calculateCashFlows", bond |-> bond,
                initialPrincipal |-> initialPrincipal,
                startDate |-> startDate, endDate |-> endDate]
    /\ cashFlows' = <<>>
    /\ allPaymentDates' = {}
    /\ currentDate' = Max(bond.issueDate, startDate)
    /\ sortedDates' = <<>>
    /\ idx' = 0
    /\ outstandingPrincipal' = Zero
    /\ lastPaymentDate' = 0
    /\ IF bond.amortizationSchedule = <<>>
       THEN pc' = "returned" /\ ret' = Returned(<<>>)
       ELSE pc' = "months" /\ ret' = ret

\* lines 80-99: entry of calculateCashFlows.  Line 91 reads .date of the last
\* schedule entry, which is undefined for an empty schedule: a TypeError
\* leaves the function there.
EnterCalculateCashFlows(bond, initialPrincipal, startDate, endDate) ==
    /\ call' = [fn |-> "calculateCashFlows", bond |-> bond,
                initialPrincipal |-> initialPrincipal,
                startDate |-> startDate, endDate |-> endDate]
    /\ cashFlows' = <<>>
    /\ allPaymentDates' = {}
    /\ currentDate' = Max(bond.issueDate, startDate)
    /\ sortedDates' = <<>>
    /\ idx' = 0
    /\ outstandingPrincipal' = Zero
    /\ lastPaymentDate' = 0
    /\ IF bond.amortizationSchedule = <<>>
       THEN pc' = "thrown" /\ ret' = Thrown
       ELSE pc' = "months" /\ ret' = ret

\* lines 101-118: one turn of the while loop
MonthStep ==
    /\ pc = "months"
    /\ currentDate <= LastDate(call.bond, call.endDate)
    /\ allPaymentDates' = allPaymentDates \cup
           InterestDateOf(call.bond, currentDate, call.startDate, call.endDate, tz)
    /\ currentDate' = NextMonth(currentDate)
    /\ UNCHANGED <<tz, earlier, folds, pc, call, sortedDates, idx, outstandingPrincipal,
                   lastPaymentDate, cashFlows, batch, ret>>

\* lines 120-134: the while loop is over; the amortization dates are added,
\* the dates sorted and the running values seeded
CollectAndSort ==
    /\ pc = "months"
    /\ currentDate > LastDate(call.bond, call.endDate)
    /\ allPaymentDates' = allPaymentDates \cup
           AmortizationDates(call.bond, call.startDate, call.endDate)
    /\ sortedDates' = SortDates(allPaymentDates')
    /\ idx' = 1
    /\ outstandingPrincipal' = call.initialPrincipal
    /\ lastPaymentDate' = call.bond.issueDate
    /\ pc' = "pay"
    /\ UNCHANGED <<tz, earlier, folds, call, currentDate, cashFlows, batch, ret>>

\* lines 136-174: one turn of the for-of loop
PayStep ==
    /\ pc = "pay"
    /\ idx <= Len(sortedDates)
    /\ LET paymentDate == sortedDates[idx]
           principalPayment ==
               PrincipalPayment(call.bond, call.initialPrincipal, paymentDate)
           interestRate == getInterestRate(call.bond, paymentDate)
           interestPayment ==
               InterestPayment(outstandingPrincipal, interestRate.value,
                               paymentDate, lastPaymentDate)
       IN  /\ ~interestRate.threw
           /\ cashFlows' = Append(cashFlows,
                  CashFlowPayment(call.bond, paymentDate, principalPayment,
                                  interestPayment))
           /\ outstandingPrincipal' = RSub(outstandingPrincipal, principalPayment)
           /\ lastPaymentDate' = paymentDate
    /\ idx' = idx + 1
    /\ UNCHANGED <<tz, earlier, folds, pc, call, currentDate, allPaymentDates, sortedDates,
                   batch, ret>>

PaySkipMissingRate ==
    /\ pc = "pay"
    /\ idx <= Len(sortedDates)
    /\ getInterestRate(call.bond, sortedDates[idx]).threw
    /\ cashFlows' = Append(cashFlows,
           CashFlowPayment(call.bond, sortedDates[idx],
               PrincipalPayment(call.bond, call.initialPrincipal, sortedDates[idx]),
               Zero))
    /\ idx' = idx + 1
    /\ UNCHANGED <<tz, earlier, folds, pc, call, currentDate, allPaymentDates, sortedDates,
                   outstandingPrincipal, lastPaymentDate, batch, ret>>

\* line 153: getInterestRate throws and the error leaves calculateCashFlows
\* (and calculateAllCashFlows, which does not catch it)
PayThrow ==
    /\ pc = "pay"
    /\ idx <= Len(sortedDates)
    /\ getInterestRate(call.bond, sortedDates[idx]).threw
    /\ pc' = "thrown"
    /\ ret' = Thrown
    /\ UNCHANGED <<tz, earlier, folds, call, locals, batch>>

\* line 176: return cashFlows to an outside caller
ReturnCashFlows ==
    /\ pc = "pay"
    /\ idx > Len(sortedDates)
    /\ batch = NoBatch
    /\ pc' = "returned"
    /\ ret' = Returned(cashFlows)
    /\ UNCHANGED <<tz, earlier, folds, call, locals, batch>>

\* the windows of the checks: [startDate, endDate] pairs for the synthetic
\* instruments and, as the command line and the web form build them
\* (1 January of a start year to 31 December of an end year), for the table
FixtureWindows ==
    {createDate(2020, 12, 1), createDate(2021, 8, 1)}
        \X {createDate(2021, 12, 31), createDate(2022, 12, 31)}

TableWindows ==
    { <<createDate(2020, 1, 1), createDate(2050, 12, 31)>>,
      <<createDate(2025, 1, 1), createDate(2030, 12, 31)>> }

CallCalculateCashFlows ==
    /\ pc = "idle"
    /\ \E bond \in Instruments :
           \E window \in (IF bond \in Fixtures THEN FixtureWindows ELSE TableWindows) :
               \E initialPrincipal \in Principals :
                   EnterCalculateCashFlows(bond, initialPrincipal,
                                           window[1], window[2])
    /\ UNCHANGED <<tz, earlier, folds, batch>>

InitCashFlows == InitResolver

NextCashFlows ==
    \/ CallCalculateCashFlows
    \/ MonthStep
    \/ CollectAndSort
    \/ PayStep
    \/ PayThrow
    \/ ReturnCashFlows

SpecCashFlows == InitCashFlows /\ [][NextCashFlows]_vars

\* instruments whose amortization schedule is empty
EmptyScheduleFixtures ==
    { Bond("FIXTURE", "USD", issue,
           <<Period(issue, createDate(2022, 1, 9), Dec5(1000))>>, <<>>, months) :
        issue \in FixtureIssueDates, months \in FixtureMonths }

\* calculateCashFlows on the synthetic instruments, with and without a
\* schedule
CallOnAnySchedule ==
    /\ pc = "idle"
    /\ \E bond \in Fixtures \cup EmptyScheduleFixtures :
           \E window \in FixtureWindows :
               \E initialPrincipal \in Principals :
                   EnterCalculateCashFlows(bond, initialPrincipal,
                                           window[1], window[2])
    /\ UNCHANGED <<tz, earlier, folds, batch>>

InitAnySchedule == InitResolver

NextAnySchedule ==
    \/ CallOnAnySchedule
    \/ MonthStep
    \/ CollectAndSort
    \/ PayStep
    \/ PayThrow
    \/ ReturnCashFlows

SpecAnySchedule == InitAnySchedule /\ [][NextAnySchedule]_vars

-----------------------------------------------------------------------------
(* Multi-Instrument Aggregator: calculateAllCashFlows, part_003, 186-209.  *)

\* line 194: initialPrincipals[bond.id] || 0
AmountOf(initialPrincipals, id) ==
    IF id \in DOMAIN initialPrincipals THEN initialPrincipals[id] ELSE Zero

RequestedNonZero(initialPrincipals, bond) ==
    AmountOf(initialPrincipals, bond.id) # Zero

\* line 196: initialPrincipal > 0
Requested(initialPrincipals, bond) ==
    RPos(AmountOf(initialPrincipals, bond.id))

Unsorted(rows) == rows

\* line 208: Array.prototype.sort by date, which is stable: a row goes after
\* the rows dated earlier and after the rows of its own date that stood
\* before it
SortByDate(rows) ==
    LET Position(i) ==
            Cardinality({j \in DOMAIN rows : rows[j].date < rows[i].date})
            + Cardinality({j \in 1..i : rows[j].date = rows[i].date})
    IN  [k \in DOMAIN rows |-> rows[CHOOSE i \in DOMAIN rows : Position(i) = k]]

\* the amounts maps of the checks: up to MaxKeys identifiers, of the table or
\* unknown to it, each with a negative, zero or positive amount
MaxKeys == 2

UnknownId == "USD-STEP-UP-2099"

AmountMaps ==
    LET ids == {getAllBonds[b].id : b \in DOMAIN getAllBonds} \cup {UnknownId}
        keySets == {K \in SUBSET ids : Cardinality(K) <= MaxKeys}
    IN  UNION {[K -> {RInt(-1), Zero, One}] : K \in keySets}

BatchWindows == { <<createDate(2024, 1, 1), createDate(2025, 12, 31)>> }

\* lines 186-191
EnterCalculateAllCashFlows(initialPrincipals, startDate, endDate) ==
    /\ batch' = [fn |-> "calculateAllCashFlows",
                 initialPrincipals |-> initialPrincipals,
                 startDate |-> startDate, endDate |-> endDate,
                 bondIdx |-> 1,
                 bondCashFlows |-> [b \in DOMAIN getAllBonds |-> <<>>],
                 allCashFlows |-> <<>>]
    /\ pc' = "forEach"
    /\ UNCHANGED <<tz, earlier, folds, call, locals, ret>>

CallCalculateAllCashFlows ==
    /\ pc = "idle"
    /\ \E initialPrincipals \in AmountMaps :
           \E window \in BatchWindows :
               EnterCalculateAllCashFlows(initialPrincipals, window[1], window[2])

\* lines 193-196: a bond whose amount is not > 0 is passed over
ForEachSkip ==
    /\ pc = "forEach"
    /\ batch.bondIdx <= Len(getAllBonds)
    /\ ~Requested(batch.initialPrincipals, getAllBonds[batch.bondIdx])
    /\ batch' = [batch EXCEPT !.bondIdx = @ + 1]
    /\ UNCHANGED <<tz, earlier, folds, pc, call, locals, ret>>

\* lines 196-202: calculateCashFlows is called for a bond with amount > 0
ForEachEnter ==
    /\ pc = "forEach"
    /\ batch.bondIdx <= Len(getAllBonds)
    /\ Requested(batch.initialPrincipals, getAllBonds[batch.bondIdx])
    /\ EnterCalculateCashFlows(
           getAllBonds[batch.bondIdx],
           AmountOf(batch.initialPrincipals, getAllBonds[batch.bondIdx].id),
           batch.startDate, batch.endDate)
    /\ UNCHANGED <<tz, earlier, folds, batch>>

\* lines 176 and 203: calculateCashFlows returns bondCashFlows, which is
\* pushed onto allCashFlows
ForEachCollect ==
    /\ pc = "pay"
    /\ idx > Len(sortedDates)
    /\ batch # NoBatch
    /\ batch' = [batch EXCEPT !.bondCashFlows[batch.bondIdx] = cashFlows,
                              !.allCashFlows = @ \o cashFlows,
                              !.bondIdx = @ + 1]
    /\ pc' = "forEach"
    /\ UNCHANGED <<tz, earlier, folds, call, locals, ret>>

\* line 208: the forEach is over; sort and return
SortAndReturn ==
    /\ pc = "forEach"
    /\ batch.bondIdx > Len(getAllBonds)
    /\ ret' = Returned(SortByDate(batch.allCashFlows))
    /\ pc' = "returned"
    /\ UNCHANGED <<tz, earlier, folds, call, locals, batch>>

InitAll == InitResolver

\* calculateCashFlows runs inside the forEach.  No date scheduled for an
\* instrument of the table lacks a rate period (RatesNeverMissing), so the
\* throw of line 153 has no step here.
NextAll ==
    \/ CallCalculateAllCashFlows
    \/ ForEachSkip
    \/ ForEachEnter
    \/ MonthStep
    \/ CollectAndSort
    \/ PayStep
    \/ ForEachCollect
    \/ SortAndReturn

SpecAll == InitAll /\ [][NextAll]_vars

-----------------------------------------------------------------------------
(* Period Aggregator: aggregateCashFlows, part_003, 217-277.               *)
(* A period label is the string the code builds, held as its sequence of   *)
(* characters: a digit is its value, the other characters the codes below. *)

Hyphen == 0 - 1
LetterH == 17
LetterQ == 26

\* String(n) of a non-negative integer
RECURSIVE Digits(_)
Digits(n) == IF n < 10 THEN <<n>> ELSE Append(Digits(n \div 10), n % 10)

\* String.prototype.padStart(2, "0")
PadStart2(chars) == IF Len(chars) < 2 THEN <<0>> \o chars ELSE chars

PeriodTypes == {"month", "quarter", "half-year", "year"}

\* lines 228-246: the period key of a payment date
PeriodLabel(date, periodType) ==
    LET year == Digits(getUTCFullYear(date))
    IN  CASE periodType = "month" ->
                year \o <<Hyphen>> \o PadStart2(Digits(getUTCMonth(date) + 1))
          [] periodType = "quarter" ->
                year \o <<Hyphen, LetterQ>> \o Digits((getUTCMonth(date) \div 3) + 1)
          [] periodType = "half-year" ->
                year \o <<Hyphen, LetterH>>
                     \o (IF getUTCMonth(date) < 6 THEN <<1>> ELSE <<2>>)
          [] OTHER -> year

\* String.prototype.localeCompare(other) < 0 on these characters, where the
\* hyphen collates before the digits and the digits before the letters
LabelLess(a, b) ==
    \E i \in 1..(Len(a) + 1) :
        /\ \A j \in 1..(i - 1) : j <= Len(b) /\ a[j] = b[j]
        /\ i <= Len(b)
        /\ (i > Len(a) \/ a[i] < b[i])

\* lines 249-259
EmptyBucket(period) ==
    [period |-> period,
     usdPrincipal |-> Zero, usdInterest |-> Zero, usdTotal |-> Zero,
     eurPrincipal |-> Zero, eurInterest |-> Zero, eurTotal |-> Zero]

AddCashFlowCurrenciesSwapped(bucket, cashFlow) ==
    IF cashFlow.currency = "EUR"
    THEN [bucket EXCEPT !.usdPrincipal = RAdd(@, cashFlow.principal),
                        !.usdInterest = RAdd(@, cashFlow.interest),
                        !.usdTotal = RAdd(@, cashFlow.total)]
    ELSE [bucket EXCEPT !.eurPrincipal = RAdd(@, cashFlow.principal),
                        !.eurInterest = RAdd(@, cashFlow.interest),
                        !.eurTotal = RAdd(@, cashFlow.total)]

\* lines 262-270
AddCashFlow(bucket, cashFlow) ==
    IF cashFlow.currency = "USD"
    THEN [bucket EXCEPT !.usdPrincipal = RAdd(@, cashFlow.principal),
                        !.usdInterest = RAdd(@, cashFlow.interest),
                        !.usdTotal = RAdd(@, cashFlow.total)]
    ELSE [bucket EXCEPT !.eurPrincipal = RAdd(@, cashFlow.principal),
                        !.eurInterest = RAdd(@, cashFlow.interest),
                        !.eurTotal = RAdd(@, cashFlow.total)]

AddCashFlowToBothCurrencies(buckets, cashFlow, periodType) ==
    LET period == PeriodLabel(cashFlow.date, periodType)
        present == \E k \in DOMAIN buckets : buckets[k].period = period
        withBucket == IF present THEN buckets
                      ELSE Append(buckets, EmptyBucket(period))
        k == CHOOSE n \in DOMAIN withBucket : withBucket[n].period = period
    IN  [withBucket EXCEPT
            ![k] = AddCashFlow(AddCashFlow(@, cashFlow),
                               [cashFlow EXCEPT !.currency =
                                   IF @ = "USD" THEN "EUR" ELSE "USD"])]

AccumulateOverwrite(buckets, cashFlow, periodType) ==
    LET period == PeriodLabel(cashFlow.date, periodType)
        present == \E k \in DOMAIN buckets : buckets[k].period = period
        withBucket == IF present THEN buckets
                      ELSE Append(buckets, EmptyBucket(period))
        k == CHOOSE n \in DOMAIN withBucket : withBucket[n].period = period
    IN  [withBucket EXCEPT ![k] = AddCashFlow(EmptyBucket(period), cashFlow)]

\* lines 223-271: the body of the forEach on one payment
Accumulate(buckets, cashFlow, periodType) ==
    LET period == PeriodLabel(cashFlow.date, periodType)
        present == \E k \in DOMAIN buckets : buckets[k].period = period
        withBucket == IF present THEN buckets
                      ELSE Append(buckets, EmptyBucket(period))
        k == CHOOSE n \in DOMAIN withBucket : withBucket[n].period = period
    IN  [withBucket EXCEPT ![k] = AddCashFlow(@, cashFlow)]

SortByPeriodCreationOrder(buckets) == buckets

\* lines 274-276: Object.values(aggregated).sort by period; the labels are
\* distinct, so a bucket goes after the buckets whose label is less
SortByPeriod(buckets) ==
    LET Position(i) ==
            1 + Cardinality({j \in DOMAIN buckets :
                                LabelLess(buckets[j].period, buckets[i].period)})
    IN  [k \in DOMAIN buckets |->
            buckets[CHOOSE i \in DOMAIN buckets : Position(i) = k]]

\* the payment lists given to the aggregator and to the present value: up to
\* MaxFlows payments, in any order, on dates that fall in different months,
\* quarters, half-years and years
MaxFlows == 2

ReferenceDates == {createDate(2024, 4, 1)}

SampleDates == {createDate(2024, 3, 31), createDate(2024, 4, 1),
                createDate(2024, 10, 9), createDate(2028, 4, 1)}

SampleAmounts == {<<Zero, Rat(1, 4)>>, <<One, Rat(1, 2)>>}

SamplePayments ==
    {CashFlowPayment(bond, date, amounts[1], amounts[2]) :
        bond \in {BondUsd2030, BondEur2030},
        date \in SampleDates, amounts \in SampleAmounts}

SampleCashFlows == UNION {[1..n -> SamplePayments] : n \in 0..MaxFlows}

\* lines 217-221
EnterAggregateCashFlows(flows, periodType) ==
    /\ call' = [fn |-> "aggregateCashFlows", cashFlows |-> flows,
                periodType |-> periodType]
    /\ aggregated' = <<>>
    /\ pos' = 1
    /\ pc' = "aggregate"
    /\ UNCHANGED <<tz, earlier, presentValue, locals, batch, ret>>

CallAggregateCashFlows ==
    /\ pc = "idle"
    /\ \E flows \in SampleCashFlows :
           \E periodType \in PeriodTypes :
               EnterAggregateCashFlows(flows, periodType)

AggregateStepShifting ==
    /\ pc = "aggregate"
    /\ call.cashFlows # <<>>
    /\ aggregated' = Accumulate(aggregated, Head(call.cashFlows), call.periodType)
    /\ call' = [call EXCEPT !.cashFlows = Tail(@)]
    /\ UNCHANGED <<tz, earlier, pc, pos, presentValue, locals, batch, ret>>

\* lines 223-271: one turn of the forEach
AggregateStep ==
    /\ pc = "aggregate"
    /\ pos <= Len(call.cashFlows)
    /\ aggregated' = Accumulate(aggregated, call.cashFlows[pos], call.periodType)
    /\ pos' = pos + 1
    /\ UNCHANGED <<tz, earlier, pc, call, presentValue, locals, batch, ret>>

\* lines 274-276
AggregateReturn ==
    /\ pc = "aggregate"
    /\ pos > Len(call.cashFlows)
    /\ ret' = Returned(SortByPeriod(aggregated))
    /\ pc' = "returned"
    /\ UNCHANGED <<tz, earlier, call, folds, locals, batch>>

InitAggregate == InitResolver

NextAggregate == CallAggregateCashFlows \/ AggregateStep \/ AggregateReturn

SpecAggregate == InitAggregate /\ [][NextAggregate]_vars

-----------------------------------------------------------------------------
(* Present Value: calculatePresentValue, part_003, 287-322.                *)

\* a / b
RDiv(a, b) == Rat(Num(a) * Den(b), Den(a) * Num(b))

\* base to a non-negative integer power
RECURSIVE RPow(_, _)
RPow(base, n) ==
    IF n = 0 THEN One
    ELSE IF n % 2 = 1 THEN RMul(base, RPow(base, n - 1))
    ELSE LET half == RPow(base, n \div 2) IN RMul(half, half)

\* lines 302-304: milliseconds between the dates over those of 365.25 days
YearsFraction(date, referenceDate) == Rat(4 * (date - referenceDate), 1461)

\* line 307: Math.pow(1 + discountRate, -yearsFraction).  It is 1 for the
\* exponent 0 and for the base 1, and a rational for a whole number of years;
\* the other values are not rationals and are no input of this model.
DiscountFactor(discountRate, yearsFraction) ==
    CASE yearsFraction = Zero -> One
      [] yearsFraction # Zero /\ discountRate = Zero -> One
      [] yearsFraction # Zero /\ discountRate # Zero /\ Den(yearsFraction) = 1
            /\ Num(yearsFraction) > 0 ->
            RPow(RDiv(One, RAdd(One, discountRate)), Num(yearsFraction))

DiscountedPrincipalOnly(value, cashFlow, discountRate, referenceDate, usdToEurRate) ==
    IF cashFlow.date < referenceDate THEN value
    ELSE LET factor == DiscountFactor(discountRate,
                                      YearsFraction(cashFlow.date, referenceDate))
             cashFlowValue == IF cashFlow.currency = "EUR"
                              THEN RDiv(cashFlow.principal, usdToEurRate)
                              ELSE cashFlow.principal
         IN  RAdd(value, RMul(cashFlowValue, factor))

DiscountedAfterReferenceDate(value, cashFlow, discountRate, referenceDate, usdToEurRate) ==
    IF cashFlow.date <= referenceDate THEN value
    ELSE LET factor == DiscountFactor(discountRate,
                                      YearsFraction(cashFlow.date, referenceDate))
             cashFlowValue == IF cashFlow.currency = "EUR"
                              THEN RDiv(cashFlow.total, usdToEurRate)
                              ELSE cashFlow.total
         IN  RAdd(value, RMul(cashFlowValue, factor))

\* lines 295-319: the body of the forEach on one payment
Discounted(value, cashFlow, discountRate, referenceDate, usdToEurRate) ==
    IF cashFlow.date < referenceDate THEN value
    ELSE LET factor == DiscountFactor(discountRate,
                                      YearsFraction(cashFlow.date, referenceDate))
             cashFlowValue == IF cashFlow.currency = "EUR"
                              THEN RDiv(cashFlow.total, usdToEurRate)
                              ELSE cashFlow.total
         IN  RAdd(value, RMul(cashFlowValue, factor))

DiscountRates == {Zero, Rat(1, 10)}

ExchangeRates == {One, Rat(85, 100)}

\* the inputs whose discount factors are rationals
Representable(flows, discountRate, referenceDate) ==
    \/ discountRate = Zero
    \/ \A k \in DOMAIN flows :
           \/ flows[k].date <= referenceDate
           \/ (flows[k].date - referenceDate) % 1461 = 0

\* lines 287-293
EnterCalculatePresentValue(flows, discountRate, referenceDate, usdToEurRate) ==
    /\ call' = [fn |-> "calculatePresentValue",
                cashFlows |-> flows,
                discountRate |-> discountRate,
                referenceDate |-> referenceDate,
                usdToEurRate |-> usdToEurRate]
    /\ presentValue' = Zero
    /\ pos' = 1
    /\ pc' = "discount"
    /\ UNCHANGED <<tz, earlier, aggregated, locals, batch, ret>>

CallCalculatePresentValue ==
    /\ pc = "idle"
    /\ \E flows \in SampleCashFlows :
           \E discountRate \in DiscountRates :
               \E referenceDate \in ReferenceDates :
                   \E usdToEurRate \in ExchangeRates :
                       /\ Representable(flows, discountRate, referenceDate)
                       /\ EnterCalculatePresentValue(flows, discountRate,
                                                     referenceDate, usdToEurRate)

\* lines 295-319: one turn of the forEach
PresentValueStep ==
    /\ pc = "discount"
    /\ pos <= Len(call.cashFlows)
    /\ presentValue' = Discounted(presentValue, call.cashFlows[pos],
                                  call.discountRate, call.referenceDate,
                                  call.usdToEurRate)
    /\ pos' = pos + 1
    /\ UNCHANGED <<tz, earlier, pc, call, aggregated, locals, batch, ret>>

\* line 321
PresentValueReturn ==
    /\ pc = "discount"
    /\ pos > Len(call.cashFlows)
    /\ ret' = Returned(presentValue)
    /\ pc' = "returned"
    /\ UNCHANGED <<tz, earlier, call, folds, locals, batch>>

InitPresentValue == InitResolver

NextPresentValue ==
    CallCalculatePresentValue \/ PresentValueStep \/ PresentValueReturn

SpecPresentValue == InitPresentValue /\ [][NextPresentValue]_vars

-----------------------------------------------------------------------------
(* The end-to-end example: an instrument issued 2020-09-04, one            *)
(* amortization of 100% on 2024-07-09, a flat rate of 1.25% and interest   *)
(* months 1 and 7, run over its lifetime with face 1000 and then           *)
(* aggregated.                                                             *)

ExampleBond ==
    Bond("EXAMPLE", "USD", createDate(2020, 9, 4),
         <<Period(createDate(2020, 9, 4), createDate(2024, 7, 9), Rat(125, 10000))>>,
         <<Amort(createDate(2024, 7, 9), One)>>,
         <<1, 7>>)

ExampleFace == RInt(1000)

ExampleWindows ==
    {createDate(2020, 1, 1), createDate(2020, 9, 4)}
        \X {createDate(2024, 7, 9), createDate(2050, 1, 1)}

CallExample ==
    /\ pc = "idle"
    /\ \E window \in ExampleWindows :
           EnterCalculateCashFlows(ExampleBond, ExampleFace, window[1], window[2])
    /\ UNCHANGED <<tz, earlier, folds, batch>>

\* the list calculateCashFlows returned is given to aggregateCashFlows
AggregateExample ==
    /\ pc = "returned"
    /\ call.fn = "calculateCashFlows"
    /\ \E periodType \in PeriodTypes :
           EnterAggregateCashFlows(ret.value, periodType)

InitExample == InitResolver

\* every scheduled date of the example has a rate, so the throw of line 153
\* has no step here
NextExample ==
    \/ CallExample
    \/ MonthStep
    \/ CollectAndSort
    \/ PayStep
    \/ ReturnCashFlows
    \/ AggregateExample
    \/ AggregateStep
    \/ AggregateReturn

SpecExample == InitExample /\ [][NextExample]_vars

-----------------------------------------------------------------------------
(* A caller that calls one of the four functions and then calls it again   *)
(* with the same argument objects.                                         *)

\* the function the caller called
RunningFn == IF batch # NoBatch THEN batch.fn ELSE call.fn

\* the argument objects of that call, as they are now
Arguments ==
    IF batch # NoBatch
    THEN <<batch.initialPrincipals, batch.startDate, batch.endDate>>
    ELSE call

RepeatPayments ==
    {CashFlowPayment(bond, date, One, Rat(1, 2)) :
        bond \in {BondUsd2030, BondEur2030},
        date \in {createDate(2024, 4, 1), createDate(2028, 4, 1)}}

RepeatCashFlows == UNION {[1..n -> RepeatPayments] : n \in 0..MaxFlows}

RepeatAmountMaps == {m \in AmountMaps : Cardinality(DOMAIN m) <= 1}

FirstCalculateCashFlows ==
    /\ pc = "idle"
    /\ \E b \in DOMAIN getAllBonds :
           \E window \in BatchWindows :
               EnterCalculateCashFlows(getAllBonds[b], One, window[1], window[2])
    /\ UNCHANGED <<tz, earlier, folds, batch>>

FirstCalculateAllCashFlows ==
    /\ pc = "idle"
    /\ \E initialPrincipals \in RepeatAmountMaps :
           \E window \in BatchWindows :
               EnterCalculateAllCashFlows(initialPrincipals, window[1], window[2])

FirstAggregateCashFlows ==
    /\ pc = "idle"
    /\ \E flows \in RepeatCashFlows :
           \E periodType \in PeriodTypes :
               EnterAggregateCashFlows(flows, periodType)

FirstCalculatePresentValue ==
    /\ pc = "idle"
    /\ \E flows \in RepeatCashFlows :
           \E discountRate \in DiscountRates :
               \E referenceDate \in ReferenceDates :
                   \E usdToEurRate \in ExchangeRates :
                       EnterCalculatePresentValue(flows, discountRate,
                                                  referenceDate, usdToEurRate)

\* the caller keeps the arguments and the result of the first call
Remember ==
    /\ pc = "returned"
    /\ earlier = NoCall
    /\ earlier' = [fn |-> RunningFn, arguments |-> Arguments, ret |-> ret]
    /\ pc' = "again"
    /\ UNCHANGED <<tz, folds, call, locals, batch, ret>>

AgainCalculateCashFlows ==
    /\ pc = "again"
    /\ RunningFn = "calculateCashFlows"
    /\ EnterCalculateCashFlows(call.bond, call.initialPrincipal,
                               call.startDate, call.endDate)
    /\ UNCHANGED <<tz, earlier, folds, batch>>

AgainCalculateAllCashFlows ==
    /\ pc = "again"
    /\ RunningFn = "calculateAllCashFlows"
    /\ EnterCalculateAllCashFlows(batch.initialPrincipals,
                                  batch.startDate, batch.endDate)

AgainAggregateCashFlows ==
    /\ pc = "again"
    /\ RunningFn = "aggregateCashFlows"
    /\ EnterAggregateCashFlows(call.cashFlows, call.periodType)

AgainCalculatePresentValue ==
    /\ pc = "again"
    /\ RunningFn = "calculatePresentValue"
    /\ EnterCalculatePresentValue(call.cashFlows, call.discountRate,
                                  call.referenceDate, call.usdToEurRate)

InitRepeat == InitResolver

\* the instruments are those of the table, whose scheduled dates all have a
\* rate, so the throw of line 153 has no step here
NextRepeat ==
    \/ FirstCalculateCashFlows
    \/ FirstCalculateAllCashFlows
    \/ FirstAggregateCashFlows
    \/ FirstCalculatePresentValue
    \/ MonthStep
    \/ CollectAndSort
    \/ PayStep
    \/ ReturnCashFlows
    \/ ForEachSkip
    \/ ForEachEnter
    \/ ForEachCollect
    \/ SortAndReturn
    \/ AggregateStep
    \/ AggregateReturn
    \/ PresentValueStep
    \/ PresentValueReturn
    \/ Remember
    \/ AgainCalculateCashFlows
    \/ AgainCalculateAllCashFlows
    \/ AgainAggregateCashFlows
    \/ AgainCalculatePresentValue

SpecRepeat == InitRepeat /\ [][NextRepeat]_vars

-----------------------------------------------------------------------------
(* Properties of the Rate Resolver.                                        *)

RateCall == pc = "returned" /\ call.fn = "getInterestRate"

Covers(period, date) == period.startDate <= date /\ date < period.endDate

\* C2: getInterestRate returns the rate of the period with
\* startDate <= date < endDate (so a date on a boundary gets the rate of the
\* period that starts there), and the final period's rate for a date equal
\* to the final period's endDate.
C2_RateOfCoveringPeriod ==
    RateCall =>
        LET periods == call.bond.interestRatePeriods
        IN  /\ \A i \in DOMAIN periods :
                   Covers(periods[i], call.date) => ret = Returned(periods[i].rate)
            /\ (periods # <<>> /\ call.date = periods[Len(periods)].endDate)
                   => ret = Returned(periods[Len(periods)].rate)

\* a date on the boundary of two periods with different rates got the rate
\* of the period that starts there
C2_Witness ==
    /\ RateCall
    /\ LET periods == call.bond.interestRatePeriods
       IN  \E i \in DOMAIN periods :
               /\ i > 1
               /\ call.date = periods[i].startDate
               /\ call.date = periods[i - 1].endDate
               /\ periods[i].rate # periods[i - 1].rate
               /\ ret = Returned(periods[i].rate)

\* date lies in a hole between two consecutive periods
InGap(periods, date) ==
    \E i \in DOMAIN periods :
        /\ i < Len(periods)
        /\ periods[i].endDate <= date
        /\ date < periods[i + 1].startDate

OutsideRateCoverage(periods, date) ==
    \/ periods = <<>>
    \/ date < periods[1].startDate
    \/ date > periods[Len(periods)].endDate
    \/ InGap(periods, date)

\* C3: getInterestRate throws for every date before the first period, after
\* the final period's endDate, or in a gap between periods; it returns no
\* rate at all there.
C3_ThrowsOutsideCoverage ==
    (RateCall /\ OutsideRateCoverage(call.bond.interestRatePeriods, call.date))
        => ret = Thrown

\* a date in a gap between two periods made the call throw
C3_Witness ==
    /\ RateCall
    /\ InGap(call.bond.interestRatePeriods, call.date)
    /\ ret.threw

-----------------------------------------------------------------------------
(* Properties of the Principal Tracker.                                    *)

PrincipalCall == pc = "returned" /\ call.fn = "getOutstandingPrincipal"

MaxDenominator == 100

\* a common denominator of the percentages of a schedule
CommonDenominator(schedule) ==
    CHOOSE L \in 1..MaxDenominator :
        /\ \A a \in Range(schedule) : L % Den(a.percentage) = 0
        /\ \A K \in 1..(L - 1) :
               \E a \in Range(schedule) : K % Den(a.percentage) # 0

\* the fraction amortized on or before a date: the percentages of the set of
\* entries dated <= date, added over a common denominator whatever their order
AmortizedBy(schedule, date) ==
    LET due == {i \in DOMAIN schedule : schedule[i].date <= date}
        L == CommonDenominator(schedule)
        parts == [i \in due |-> Num(schedule[i].percentage)
                                    * (L \div Den(schedule[i].percentage))]
    IN  Rat(BagCardinality(parts), L)

Reverse(seq) == [i \in DOMAIN seq |-> seq[Len(seq) + 1 - i]]

\* C4: getOutstandingPrincipal returns P before the issue date and otherwise
\* P * (1 - sum of the percentages of the entries dated <= date), whatever the
\* order of the entries in the schedule.
C4_OutstandingPrincipalFormula ==
    PrincipalCall =>
        LET bond == call.bond
            P == call.initialPrincipal
            reversed == [bond EXCEPT !.amortizationSchedule = Reverse(@)]
        IN  /\ ret = Returned(
                       IF call.date < bond.issueDate THEN P
                       ELSE RMul(P, RSub(One, AmortizedBy(bond.amortizationSchedule,
                                                           call.date))))
            /\ ret = Returned(getOutstandingPrincipal(reversed, call.date, P))

\* a schedule whose entries are out of date order, queried on the date of its
\* last-listed entry, which is not the latest one
C4_Witness ==
    /\ PrincipalCall
    /\ LET schedule == call.bond.amortizationSchedule
       IN  /\ Len(schedule) > 1
           /\ schedule[Len(schedule)].date < schedule[1].date
           /\ call.date = schedule[Len(schedule)].date
           /\ ret.value # call.initialPrincipal
           /\ ret.value # Zero

\* C5: for every instrument of the reference table and every P, the
\* outstanding principal is P at the issue date and 0 at the maturity date
\* (the latest amortization date).
C5_ReferenceTableEndpoints ==
    (PrincipalCall /\ call.bond \in Range(BONDS)) =>
        /\ call.date = call.bond.issueDate => ret = Returned(call.initialPrincipal)
        /\ call.date = Maturity(call.bond.amortizationSchedule) => ret = Returned(Zero)

\* the 2038 bond queried at its maturity date returned 0
C5_Witness ==
    /\ PrincipalCall
    /\ call.bond = BondUsd2038
    /\ call.date = createDate(2037, 7, 9)
    /\ call.date = Maturity(call.bond.amortizationSchedule)
    /\ ret = Returned(Zero)

-----------------------------------------------------------------------------
(* Properties of the Cash Flow Generator.                                  *)

\* the sum of the rationals numbers[lo..hi]
RECURSIVE RSumIn(_, _, _)
RSumIn(numbers, lo, hi) ==
    IF lo > hi THEN Zero
    ELSE IF lo = hi THEN numbers[lo]
    ELSE RAdd(RSumIn(numbers, lo, (lo + hi) \div 2),
              RSumIn(numbers, (lo + hi) \div 2 + 1, hi))

RSum(numbers) == RSumIn(numbers, 1, Len(numbers))

Principals_Of(payments) == [k \in DOMAIN payments |-> payments[k].principal]

InCashFlows == call.fn = "calculateCashFlows"

\* the for-of loop is about to compute the payment of sortedDates[idx]
AtPayment == InCashFlows /\ pc = "pay" /\ idx <= Len(sortedDates)

\* C1: at each scheduled date d the running outstanding principal equals the
\* Principal Tracker's value just before d,
\* initialPrincipal * (1 - sum of the percentages dated strictly before d),
\* for every instrument and window.
C1_RunningMatchesTracker ==
    AtPayment =>
        outstandingPrincipal =
            RMul(call.initialPrincipal,
                 RSub(One, AmortizedBy(call.bond.amortizationSchedule,
                                       sortedDates[idx] - 1)))

\* the window covers the instrument's whole life
FullLifetime ==
    /\ call.startDate <= call.bond.issueDate
    /\ call.endDate >= Maturity(call.bond.amortizationSchedule)

SumsToOne == AmortizedBy(call.bond.amortizationSchedule,
                         Maturity(call.bond.amortizationSchedule)) = One

\* the data-model invariants of the rate periods: contiguous, from the issue
\* date to the maturity date
WellFormedPeriods ==
    LET periods == call.bond.interestRatePeriods
    IN  /\ periods # <<>>
        /\ periods[1].startDate = call.bond.issueDate
        /\ periods[Len(periods)].endDate = Maturity(call.bond.amortizationSchedule)
        /\ \A i \in 1..(Len(periods) - 1) :
               periods[i].endDate = periods[i + 1].startDate

\* C6: a full-lifetime run on an instrument whose percentages sum to 1 emits
\* payments whose principal fields sum to initialPrincipal, and the running
\* outstanding principal is 0 after the last payment.  Stated here for the
\* instruments with well-formed rate periods, in a process whose zone is UTC.
C6_FullLifetimeRepaysPrincipal ==
    (/\ InCashFlows
     /\ tz = 0
     /\ WellFormedPeriods
     /\ FullLifetime
     /\ SumsToOne
     /\ pc \in {"returned", "thrown"}) =>
        /\ pc = "returned"
        /\ RSum(Principals_Of(ret.value)) = call.initialPrincipal
        /\ outstandingPrincipal = Zero

\* the percentage of the amortization entry dated exactly date, else 0
PercentageOn(schedule, date) ==
    IF \E a \in Range(schedule) : a.date = date
    THEN (CHOOSE a \in Range(schedule) : a.date = date).percentage
    ELSE Zero

\* payment k of a list carries the amounts the Generator's contract gives it
PaymentAsSpecified(payments, k) ==
    LET row == payments[k]
        before == RSub(call.initialPrincipal,
                       RSum(Principals_Of(SubSeq(payments, 1, k - 1))))
        since == IF k = 1 THEN call.bond.issueDate ELSE payments[k - 1].date
        rate == getInterestRate(call.bond, row.date)
    IN  /\ ~rate.threw
        /\ row.interest =
               RMul(RMul(RMul(before, rate.value), RInt(row.date - since)),
                    Rat(1, 360))
        /\ row.principal =
               RMul(call.initialPrincipal,
                    PercentageOn(call.bond.amortizationSchedule, row.date))
        /\ row.total = RAdd(row.principal, row.interest)

\* C7: every emitted payment has interest = outstanding principal before the
\* date's principal payment * rate at the date * days since the previous
\* emitted payment (the issue date for the first) / 360, principal =
\* initialPrincipal * the percentage due on that date (else 0), and total =
\* principal + interest.  Checked on each payment when it is emitted and on
\* every payment of a returned list.
C7_PaymentAmounts ==
    InCashFlows =>
        /\ (pc = "pay" /\ cashFlows # <<>>)
               => PaymentAsSpecified(cashFlows, Len(cashFlows))
        /\ pc = "returned"
               => \A k \in DOMAIN ret.value : PaymentAsSpecified(ret.value, k)

\* a returned list whose second payment pays interest on a principal already
\* reduced by the first, which carried an amortization
C7_Witness ==
    /\ InCashFlows
    /\ pc = "returned"
    /\ Len(ret.value) >= 2
    /\ RPos(ret.value[1].principal)
    /\ RPos(ret.value[2].interest)
    /\ RPos(ret.value[2].principal)

\* the day-9 dates of the interest-payment months of the years lo..hi
CouponDays(months, lo, hi) ==
    {DateUTC(y, months[i] - 1, 9) :
        y \in getUTCFullYear(lo)..getUTCFullYear(hi), i \in DOMAIN months}

\* C8: every scheduled date that is not an amortization date is day 9 (UTC)
\* of an interest-payment month, and every such day 9 within
\* [max(issueDate, startDate), min(endDate, last amortization date + 1 day)]
\* and within [startDate, endDate] is scheduled, in every local time zone.
C8_InterestDatesAreDayNine ==
    (InCashFlows /\ pc = "pay" /\ idx = 1) =>
        LET bond == call.bond
            scheduled == Range(sortedDates)
            amortization == {a.date : a \in Range(bond.amortizationSchedule)}
            lo == Max(bond.issueDate, call.startDate)
            hi == LastDate(bond, call.endDate)
        IN  /\ \A d \in scheduled \ amortization :
                   /\ getUTCDate(d) = 9
                   /\ Includes(bond.interestPaymentMonths, getUTCMonth(d) + 1)
            /\ \A d \in CouponDays(bond.interestPaymentMonths, lo, hi) :
                   (lo <= d /\ d <= hi /\ call.startDate <= d /\ d <= call.endDate)
                       => d \in scheduled

-----------------------------------------------------------------------------
(* Properties of the Multi-Instrument Aggregator.                          *)

InBatch == batch.fn = "calculateAllCashFlows"

BatchReturned == InBatch /\ pc = "returned"

\* inside calculateAllCashFlows getInterestRate never throws
RatesNeverMissing ==
    (InBatch /\ pc = "pay" /\ idx <= Len(sortedDates))
        => ~getInterestRate(call.bond, sortedDates[idx]).threw

\* the rows of one instrument in a list, in the list's order
RowsOf(rows, id) ==
    LET OfInstrument(row) == row.bondId = id
    IN  SelectSeq(rows, OfInstrument)

\* the amortization entries of a bond that fall in the batch's window
DueInWindow(bond) ==
    {a \in Range(bond.amortizationSchedule) :
        a.date >= batch.startDate /\ a.date <= batch.endDate}

\* C9: calculateAllCashFlows returns rows exactly for the instruments of the
\* table whose requested amount is > 0: none for a zero, negative or missing
\* amount, none for an identifier the table does not know (which does not
\* abort the batch), and for a positive amount the instrument's payments,
\* computed on that amount.
C9_RowsOnlyForPositiveAmounts ==
    /\ RatesNeverMissing
    /\ BatchReturned =>
           LET amounts == batch.initialPrincipals
           IN  /\ \A k \in DOMAIN ret.value :
                      \E b \in DOMAIN getAllBonds :
                          /\ getAllBonds[b].id = ret.value[k].bondId
                          /\ getAllBonds[b].id \in DOMAIN amounts
                          /\ RLess(Zero, amounts[getAllBonds[b].id])
               /\ \A b \in DOMAIN getAllBonds :
                      (/\ getAllBonds[b].id \in DOMAIN amounts
                       /\ RLess(Zero, amounts[getAllBonds[b].id]))
                          => \A a \in DueInWindow(getAllBonds[b]) :
                                 \E k \in DOMAIN ret.value :
                                     /\ ret.value[k].bondId = getAllBonds[b].id
                                     /\ ret.value[k].date = a.date
                                     /\ ret.value[k].principal =
                                            RMul(amounts[getAllBonds[b].id], a.percentage)

\* a batch whose map names an unknown identifier and gives a table instrument
\* a negative amount returned, with no row
C9_Witness ==
    /\ BatchReturned
    /\ UnknownId \in DOMAIN batch.initialPrincipals
    /\ \E b \in DOMAIN getAllBonds :
           /\ getAllBonds[b].id \in DOMAIN batch.initialPrincipals
           /\ batch.initialPrincipals[getAllBonds[b].id] = RInt(-1)
    /\ ret.value = <<>>

\* position of an instrument in the table
TableIndex(id) == CHOOSE b \in DOMAIN getAllBonds : getAllBonds[b].id = id

\* C10: the returned list is sorted ascending by date, is exactly the union
\* of the per-instrument results (each instrument's rows, in their order, are
\* its calculateCashFlows result and there is no other row), and rows of
\* different instruments on one date stand in the order of the table.
C10_SortedStableUnion ==
    BatchReturned =>
        LET out == ret.value
            results == batch.bondCashFlows
            nonEmpty == {b \in DOMAIN results : results[b] # <<>>}
        IN  /\ \A k \in 1..(Len(out) - 1) : out[k].date <= out[k + 1].date
            /\ \A b \in DOMAIN getAllBonds :
                   RowsOf(out, getAllBonds[b].id) = results[b]
            /\ Len(out) = BagCardinality([b \in nonEmpty |-> Len(results[b])])
            /\ \A k \in 1..(Len(out) - 1) :
                   out[k].date = out[k + 1].date
                       => TableIndex(out[k].bondId) < TableIndex(out[k + 1].bondId)

\* two instruments paid on the same date and the earlier one of the table
\* comes first, although the concatenation was not in date order
C10_Witness ==
    /\ BatchReturned
    /\ batch.allCashFlows # ret.value
    /\ \E k \in 1..(Len(ret.value) - 1) :
           /\ ret.value[k].date = ret.value[k + 1].date
           /\ ret.value[k].bondId # ret.value[k + 1].bondId

-----------------------------------------------------------------------------
(* Properties of the Period Aggregator.                                    *)

InAggregate == call.fn = "aggregateCashFlows"

AggregateReturned == InAggregate /\ pc = "returned"

\* the sum of one field over a list of records
SumOfField(rows, field) == RSum([k \in DOMAIN rows |-> rows[k][field]])

\* the payments of one currency in a list
InCurrency(flows, currency) ==
    LET OfCurrency(flow) == flow.currency = currency
    IN  SelectSeq(flows, OfCurrency)

\* the per-currency sums of the buckets equal those of the payments
MassPreserved(buckets, flows) ==
    /\ SumOfField(buckets, "usdPrincipal") = SumOfField(InCurrency(flows, "USD"), "principal")
    /\ SumOfField(buckets, "usdInterest") = SumOfField(InCurrency(flows, "USD"), "interest")
    /\ SumOfField(buckets, "usdTotal") = SumOfField(InCurrency(flows, "USD"), "total")
    /\ SumOfField(buckets, "eurPrincipal") = SumOfField(InCurrency(flows, "EUR"), "principal")
    /\ SumOfField(buckets, "eurInterest") = SumOfField(InCurrency(flows, "EUR"), "interest")
    /\ SumOfField(buckets, "eurTotal") = SumOfField(InCurrency(flows, "EUR"), "total")

\* C11: for every payment list and period type, the sums over the returned
\* buckets of the USD (resp. EUR) principal, interest and total equal the sums
\* of principal, interest and total over the USD (resp. EUR) payments of the
\* input; the same holds of the payments taken so far at every turn of the
\* forEach.
C11_AggregationPreservesSums ==
    /\ (InAggregate /\ pc = "aggregate")
           => MassPreserved(aggregated, SubSeq(call.cashFlows, 1, pos - 1))
    /\ AggregateReturned => MassPreserved(ret.value, call.cashFlows)

\* two payments of different currencies fell into one returned bucket
C11_Witness ==
    /\ AggregateReturned
    /\ Len(call.cashFlows) = 2
    /\ Len(ret.value) = 1
    /\ call.cashFlows[1].currency # call.cashFlows[2].currency
    /\ ret.value[1].usdTotal # Zero
    /\ ret.value[1].eurTotal # Zero

\* months since year 0 of the first month of the period a date falls in
PeriodOrdinal(date, periodType) ==
    LET month == getUTCMonth(date)
        first == CASE periodType = "month" -> month
                   [] periodType = "quarter" -> 3 * (month \div 3)
                   [] periodType = "half-year" -> 6 * (month \div 6)
                   [] OTHER -> 0
    IN  12 * getUTCFullYear(date) + first

\* the shape of a label of a four-digit year: YYYY-MM, YYYY-Qn, YYYY-Hn, YYYY
LabelShape(label, date, periodType) ==
    LET year == getUTCFullYear(date)
        month == getUTCMonth(date)
        yyyy == <<year \div 1000, (year \div 100) % 10, (year \div 10) % 10, year % 10>>
    IN  CASE periodType = "month" ->
                label = yyyy \o <<Hyphen, (month + 1) \div 10, (month + 1) % 10>>
          [] periodType = "quarter" ->
                label = yyyy \o <<Hyphen, LetterQ, (month \div 3) + 1>>
          [] periodType = "half-year" ->
                label = yyyy \o <<Hyphen, LetterH, IF month <= 5 THEN 1 ELSE 2>>
          [] OTHER -> label = yyyy

\* C12: aggregateCashFlows returns exactly one bucket per distinct period
\* label of the input (YYYY-MM, YYYY-Qn with n = floor(UTC month / 3) + 1,
\* YYYY-H1 for UTC months 0-5 and YYYY-H2 for 6-11, YYYY), in strictly
\* ascending label order, which is the chronological order of the periods.
C12_OneBucketPerLabelAscending ==
    AggregateReturned =>
        LET out == ret.value
            flows == call.cashFlows
            type == call.periodType
            labels == {PeriodLabel(flows[k].date, type) : k \in DOMAIN flows}
        IN  /\ {out[k].period : k \in DOMAIN out} = labels
            /\ Len(out) = Cardinality(labels)
            /\ \A k \in 1..(Len(out) - 1) : LabelLess(out[k].period, out[k + 1].period)
            /\ \A k \in DOMAIN flows :
                   LabelShape(PeriodLabel(flows[k].date, type), flows[k].date, type)
            /\ \A i, j \in DOMAIN flows :
                   LET bi == CHOOSE k \in DOMAIN out :
                                 out[k].period = PeriodLabel(flows[i].date, type)
                       bj == CHOOSE k \in DOMAIN out :
                                 out[k].period = PeriodLabel(flows[j].date, type)
                   IN  /\ (bi < bj) <=> (PeriodOrdinal(flows[i].date, type)
                                            < PeriodOrdinal(flows[j].date, type))
                       /\ (bi = bj) <=> (PeriodOrdinal(flows[i].date, type)
                                            = PeriodOrdinal(flows[j].date, type))

\* the later period came first in the input, and the returned buckets are in
\* the other order
C12_Witness ==
    /\ AggregateReturned
    /\ Len(ret.value) = 2
    /\ aggregated # ret.value
    /\ call.cashFlows[1].date > call.cashFlows[2].date

\* the bucket of a label, all zero while the label has no bucket
BucketOf(buckets, period) ==
    IF \E k \in DOMAIN buckets : buckets[k].period = period
    THEN buckets[CHOOSE k \in DOMAIN buckets : buckets[k].period = period]
    ELSE EmptyBucket(period)

LabelsOf(buckets) == {buckets[k].period : k \in DOMAIN buckets}

\* what one turn of the forEach may change
FrameOfPayment ==
    LET cashFlow == call.cashFlows[pos]
        period == PeriodLabel(cashFlow.date, call.periodType)
        before == BucketOf(aggregated, period)
        after == BucketOf(aggregated', period)
    IN  /\ LabelsOf(aggregated') = LabelsOf(aggregated) \cup {period}
        /\ Len(aggregated') = Cardinality(LabelsOf(aggregated'))
        /\ \A other \in LabelsOf(aggregated) \ {period} :
               BucketOf(aggregated', other) = BucketOf(aggregated, other)
        /\ cashFlow.currency = "USD" =>
               /\ after.usdPrincipal = RAdd(before.usdPrincipal, cashFlow.principal)
               /\ after.usdInterest = RAdd(before.usdInterest, cashFlow.interest)
               /\ after.usdTotal = RAdd(before.usdTotal, cashFlow.total)
               /\ after.eurPrincipal = before.eurPrincipal
               /\ after.eurInterest = before.eurInterest
               /\ after.eurTotal = before.eurTotal
        /\ cashFlow.currency = "EUR" =>
               /\ after.eurPrincipal = RAdd(before.eurPrincipal, cashFlow.principal)
               /\ after.eurInterest = RAdd(before.eurInterest, cashFlow.interest)
               /\ after.eurTotal = RAdd(before.eurTotal, cashFlow.total)
               /\ after.usdPrincipal = before.usdPrincipal
               /\ after.usdInterest = before.usdInterest
               /\ after.usdTotal = before.usdTotal

\* C13: adding a USD payment changes only the usdPrincipal, usdInterest and
\* usdTotal of the bucket of its own period label, and leaves every EUR field
\* and every other bucket as they were; symmetrically for an EUR payment.
C13_PaymentTouchesOwnBucketAndCurrency ==
    [][(InAggregate /\ pc = "aggregate" /\ pos' = pos + 1) => FrameOfPayment]_vars

\* a USD payment has been added to a bucket that held EUR amounts, beside
\* another bucket
C13_Witness ==
    /\ InAggregate
    /\ pc = "aggregate"
    /\ pos = 3
    /\ call.cashFlows[2].currency = "USD"
    /\ Len(aggregated) = 1
    /\ aggregated[1].eurTotal # Zero
    /\ aggregated[1].usdTotal = call.cashFlows[2].total

-----------------------------------------------------------------------------
(* Properties of the Present Value.                                        *)

InPresentValue == call.fn = "calculatePresentValue"

PresentValueReturned == InPresentValue /\ pc = "returned"

\* the payments dated at or after a date
NotBefore(flows, date) ==
    LET Future(flow) == flow.date >= date
    IN  SelectSeq(flows, Future)

\* C14: with discount rate 0 and exchange rate 1, calculatePresentValue is
\* the plain sum of the total field over the payments dated at or after the
\* reference date, for lists mixing USD and EUR payments.
C14_ZeroRateIsPlainSum ==
    (PresentValueReturned /\ call.discountRate = Zero /\ call.usdToEurRate = One)
        => ret.value = SumOfField(NotBefore(call.cashFlows, call.referenceDate), "total")

\* a list of a past payment and a later EUR payment, valued at the EUR total
C14_Witness ==
    /\ PresentValueReturned
    /\ call.discountRate = Zero
    /\ call.usdToEurRate = One
    /\ Len(call.cashFlows) = 2
    /\ call.cashFlows[1].date < call.referenceDate
    /\ call.cashFlows[2].date > call.referenceDate
    /\ call.cashFlows[2].currency = "EUR"
    /\ call.cashFlows[2].principal # Zero
    /\ ret.value = call.cashFlows[2].total

\* the weight of a payment in the present value
WeightOf(flow) ==
    LET value == IF flow.currency = "EUR"
                 THEN RDiv(flow.total, call.usdToEurRate) ELSE flow.total
    IN  IF flow.date < call.referenceDate THEN Zero
        ELSE IF flow.date = call.referenceDate THEN value
        ELSE RMul(value, DiscountFactor(call.discountRate,
                                        YearsFraction(flow.date, call.referenceDate)))

WeightsOf(flows) == [k \in DOMAIN flows |-> WeightOf(flows[k])]

\* C15: a payment dated strictly before the reference date has weight zero in
\* the present value, and a payment dated exactly at the reference date
\* counts at its full total, divided by usdToEurRate if it is in EUR: the
\* running sum, and the value returned, is the sum of these weights.
C15_PastIsZeroReferenceDateIsFull ==
    /\ (InPresentValue /\ pc = "discount")
           => presentValue = RSum(WeightsOf(SubSeq(call.cashFlows, 1, pos - 1)))
    /\ PresentValueReturned => ret.value = RSum(WeightsOf(call.cashFlows))

\* a discounted valuation of a past USD payment and an EUR payment of the
\* reference date
C15_Witness ==
    /\ PresentValueReturned
    /\ call.discountRate # Zero
    /\ call.usdToEurRate # One
    /\ Len(call.cashFlows) = 2
    /\ call.cashFlows[1].date < call.referenceDate
    /\ call.cashFlows[1].total # Zero
    /\ call.cashFlows[2].date = call.referenceDate
    /\ call.cashFlows[2].currency = "EUR"
    /\ ret.value = RDiv(call.cashFlows[2].total, call.usdToEurRate)

-----------------------------------------------------------------------------
(* Properties of the end-to-end example.                                   *)

ExampleReturned ==
    /\ pc = "returned"
    /\ call.fn = "calculateCashFlows"
    /\ call.bond = ExampleBond

ExampleDates ==
    <<createDate(2021, 1, 9), createDate(2021, 7, 9), createDate(2022, 1, 9),
      createDate(2022, 7, 9), createDate(2023, 1, 9), createDate(2023, 7, 9),
      createDate(2024, 1, 9), createDate(2024, 7, 9)>>

\* 1000 * 0.0125 * days / 360 for the k-th date of the example
ExampleInterest(k) ==
    LET previous == IF k = 1 THEN createDate(2020, 9, 4) ELSE ExampleDates[k - 1]
    IN  Rat(1000 * 125 * (ExampleDates[k] - previous), 10000 * 360)

\* C16: a full-lifetime run on the example instrument emits exactly eight
\* payments: seven with principal 0 and interest 1000 * 0.0125 * days / 360
\* on 2021-01-09, 2021-07-09, 2022-01-09, 2022-07-09, 2023-01-09, 2023-07-09
\* and 2024-01-09, and a last one on 2024-07-09 with principal 1000 and that
\* period's interest; the principal adds up to 1000.
C16_ExamplePayments ==
    ExampleReturned =>
        /\ Len(ret.value) = 8
        /\ \A k \in 1..8 :
               /\ k <= Len(ret.value)
               /\ ret.value[k].date = ExampleDates[k]
               /\ ret.value[k].principal = (IF k = 8 THEN RInt(1000) ELSE Zero)
               /\ ret.value[k].interest = ExampleInterest(k)
               /\ ret.value[k].total = RAdd(ret.value[k].principal, ExampleInterest(k))
        /\ SumOfField(ret.value, "principal") = RInt(1000)

ExampleAggregatedByYear ==
    /\ pc = "returned"
    /\ call.fn = "aggregateCashFlows"
    /\ call.periodType = "year"
    /\ cashFlows = call.cashFlows
    /\ cashFlows # <<>>
    /\ cashFlows[1].bondId = "EXAMPLE"

EurFieldsZero(bucket) ==
    /\ bucket.eurPrincipal = Zero
    /\ bucket.eurInterest = Zero
    /\ bucket.eurTotal = Zero

\* C17 as stated: aggregating the payments of the example by year yields
\* exactly 5 buckets, each with all EUR fields zero.
C17_FiveYearBuckets ==
    ExampleAggregatedByYear =>
        /\ Len(ret.value) = 5
        /\ \A k \in DOMAIN ret.value : EurFieldsZero(ret.value[k])

\* C17: aggregating the payments of the example by year yields exactly 4
\* buckets, labelled 2021, 2022, 2023 and 2024, each with all EUR fields zero
\* and a USD total that is not zero.
C17_FourYearBuckets ==
    ExampleAggregatedByYear =>
        /\ Len(ret.value) = 4
        /\ \A k \in 1..4 :
               /\ k <= Len(ret.value)
               /\ ret.value[k].period = <<2, 0, 2, k>>
               /\ EurFieldsZero(ret.value[k])
               /\ ret.value[k].usdTotal # Zero

\* the eight payments of the example have been aggregated by year
C17_Witness ==
    /\ ExampleAggregatedByYear
    /\ Len(call.cashFlows) = 8
    /\ ret.value # <<>>
    /\ ret.value[1].usdInterest # Zero

-----------------------------------------------------------------------------
(* Properties of the reference table and of the error path.                *)

OnTableInstrument == InCashFlows /\ call.bond \in Range(BONDS)

StrictlyIncreasingDates(schedule) ==
    \A i \in 1..(Len(schedule) - 1) : schedule[i].date < schedule[i + 1].date

\* C18: the amortization dates of every instrument of the reference table
\* are strictly increasing in list order, so that the last list entry, which
\* the scheduler takes as its upper bound, is the latest amortization date.
C18_AmortizationDatesIncreasing ==
    OnTableInstrument =>
        /\ StrictlyIncreasingDates(call.bond.amortizationSchedule)
        /\ \A i \in DOMAIN call.bond.amortizationSchedule :
               call.bond.amortizationSchedule[i].date
                   <= call.bond.amortizationSchedule[
                          Len(call.bond.amortizationSchedule)].date

\* C19: the amortization percentages of every instrument of the reference
\* table sum to 1.
C19_TablePercentagesSumToOne ==
    /\ \A b \in DOMAIN getAllBonds :
           SumPercentages(getAllBonds[b].amortizationSchedule) = One
    /\ OnTableInstrument => SumPercentages(call.bond.amortizationSchedule) = One

\* a lifetime run on the table instrument of 22 equal payments returned with
\* nothing outstanding
C19_Witness ==
    /\ OnTableInstrument
    /\ pc = "returned"
    /\ FullLifetime
    /\ Len(call.bond.amortizationSchedule) = 22
    /\ outstandingPrincipal = Zero

MissingRateNext ==
    /\ InCashFlows
    /\ pc = "pay"
    /\ idx <= Len(sortedDates)
    /\ getInterestRate(call.bond, sortedDates[idx]).threw

\* C20: when a scheduled date has no applicable rate period, the step of
\* calculateCashFlows at that date is the error, which reaches the caller
\* with no payment list; a run that returns a list had a rate for every
\* scheduled date; and nothing runs after the error (no retry).
C20_MissingRateAborts ==
    /\ [](/\ (InCashFlows /\ pc = "thrown") => (ret = Thrown /\ ret.value = <<>>)
          /\ (InCashFlows /\ pc = "returned") =>
                 /\ ret.value = cashFlows
                 /\ Len(cashFlows) = Len(sortedDates)
                 /\ \A k \in DOMAIN sortedDates :
                        ~getInterestRate(call.bond, sortedDates[k]).threw)
    /\ [][/\ MissingRateNext => (pc' = "thrown" /\ ret' = Thrown)
          /\ pc = "thrown" => UNCHANGED vars]_vars

\* the error came after payments had been computed, and none is returned
C20_Witness ==
    /\ InCashFlows
    /\ pc = "thrown"
    /\ cashFlows # <<>>
    /\ idx > 1
    /\ ret = Thrown

-----------------------------------------------------------------------------
(* Properties of the schedule of one instrument.                           *)

StrictlyIncreasingPayments(payments) ==
    \A k \in 1..(Len(payments) - 1) : payments[k].date < payments[k + 1].date

\* day 9 (UTC) of an interest-payment month of the bond
IsInterestDay(bond, date) ==
    /\ getUTCDate(date) = 9
    /\ Includes(bond.interestPaymentMonths, getUTCMonth(date) + 1)

\* the amortization entries of the running call's bond inside its window
DueInCallWindow ==
    {a \in Range(call.bond.amortizationSchedule) :
        a.date >= call.startDate /\ a.date <= call.endDate}

\* C21: the dates of the payments of calculateCashFlows are strictly
\* increasing, so there is one payment per date; an amortization date that is
\* also an interest date has exactly one payment, which carries the non-zero
\* principal of the amortization and the interest accrued to that date.
C21_OnePaymentPerDate ==
    InCashFlows =>
        /\ StrictlyIncreasingPayments(cashFlows)
        /\ pc = "returned" =>
               /\ StrictlyIncreasingPayments(ret.value)
               /\ \A a \in DueInCallWindow :
                      IsInterestDay(call.bond, a.date) =>
                          /\ Cardinality({k \in DOMAIN ret.value :
                                             ret.value[k].date = a.date}) = 1
                          /\ \A k \in DOMAIN ret.value :
                                 ret.value[k].date = a.date =>
                                     /\ ret.value[k].principal # Zero
                                     /\ PaymentAsSpecified(ret.value, k)

\* in a process on UTC an amortization fell on an interest date, after an
\* earlier payment, and its one payment has principal and interest
C21_Witness ==
    /\ InCashFlows
    /\ pc = "returned"
    /\ tz = 0
    /\ \E k \in DOMAIN ret.value :
           /\ k > 1
           /\ IsInterestDay(call.bond, ret.value[k].date)
           /\ \E a \in DueInCallWindow : a.date = ret.value[k].date
           /\ RPos(ret.value[k].principal)
           /\ RPos(ret.value[k].interest)

\* the amortization entries of the running call's bond inside its window, in
\* list order
ScheduleInCallWindow ==
    LET InWindow(a) == a.date >= call.startDate /\ a.date <= call.endDate
    IN  SelectSeq(call.bond.amortizationSchedule, InWindow)

\* C22: every payment returned by calculateCashFlows is dated within
\* [startDate, endDate]; every amortization entry dated within the window
\* has a payment with principal = initialPrincipal * percentage; and the
\* principal of the returned payments adds up to initialPrincipal times the
\* sum of the percentages of the entries in the window.
C22_PaymentsWithinWindow ==
    (InCashFlows /\ pc = "returned") =>
        /\ \A k \in DOMAIN ret.value :
               /\ ret.value[k].date >= call.startDate
               /\ ret.value[k].date <= call.endDate
        /\ \A a \in DueInCallWindow :
               \E k \in DOMAIN ret.value :
                   /\ ret.value[k].date = a.date
                   /\ ret.value[k].principal = RMul(call.initialPrincipal, a.percentage)
        /\ SumOfField(ret.value, "principal")
               = RMul(call.initialPrincipal, SumPercentages(ScheduleInCallWindow))

\* a window that leaves out an amortization and holds another: the principal
\* returned is that of the second alone
C22_Witness ==
    /\ InCashFlows
    /\ pc = "returned"
    /\ Len(ScheduleInCallWindow) >= 1
    /\ Len(ScheduleInCallWindow) < Len(call.bond.amortizationSchedule)
    /\ RPos(SumOfField(ret.value, "principal"))
    /\ RLess(SumOfField(ret.value, "principal"), call.initialPrincipal)

\* the data-model invariants of an instrument: contiguous rate periods from
\* issue to maturity, strictly increasing amortization dates, none before the
\* issue date, percentages that sum to 1
DataModelInvariants ==
    /\ WellFormedPeriods
    /\ StrictlyIncreasingDates(call.bond.amortizationSchedule)
    /\ \A a \in Range(call.bond.amortizationSchedule) : a.date >= call.bond.issueDate
    /\ SumsToOne

\* C23: for an instrument that satisfies the data-model invariants, and every
\* window, no date scheduled by calculateCashFlows is earlier than the issue
\* date, and the days since the last payment are never negative.
C23_NoDateBeforeIssue ==
    (InCashFlows /\ DataModelInvariants) =>
        /\ \A str \in allPaymentDates : parseISO(str) >= call.bond.issueDate
        /\ \A k \in DOMAIN sortedDates : sortedDates[k] >= call.bond.issueDate
        /\ AtPayment => sortedDates[idx] >= lastPaymentDate

\* C24: calculateCashFlows on an instrument whose amortization schedule is
\* empty ends in a fault before any payment is produced and before any date
\* is scheduled; it never returns a payment list.
C24_EmptyScheduleFaults ==
    (InCashFlows /\ call.bond.amortizationSchedule = <<>>) =>
        /\ pc = "thrown"
        /\ ret = Thrown
        /\ cashFlows = <<>>
        /\ allPaymentDates = {}
        /\ sortedDates = <<>>

\* the call on an instrument without a schedule has faulted
C24_Witness ==
    /\ InCashFlows
    /\ call.bond.amortizationSchedule = <<>>
    /\ call.bond.interestRatePeriods # <<>>
    /\ pc = "thrown"
    /\ ~RPos(outstandingPrincipal)

-----------------------------------------------------------------------------
(* Properties of repeated calls.                                           *)

\* C25: calculateCashFlows, calculateAllCashFlows, aggregateCashFlows and
\* calculatePresentValue leave their arguments as they were given (the
\* instrument with its rate periods and schedule, the amounts map, the
\* cash-flow list with its order and every field): no step of a running call
\* changes them, and a second call with the same arguments returns a result
\* equal to the first.
C25_InputsUnchangedResultsRepeat ==
    /\ [](earlier # NoCall =>
              /\ RunningFn = earlier.fn
              /\ Arguments = earlier.arguments
              /\ pc = "returned" => ret = earlier.ret)
    /\ [][(pc \notin {"idle", "again"}) => Arguments' = Arguments]_vars

\* the second aggregation of a list of two payments in two currencies has
\* returned
C25_Witness ==
    /\ earlier # NoCall
    /\ pc = "returned"
    /\ RunningFn = "aggregateCashFlows"
    /\ Len(call.cashFlows) = 2
    /\ call.cashFlows[1].currency # call.cashFlows[2].currency
    /\ call.cashFlows[1].date > call.cashFlows[2].date
    /\ ret.value # <<>>

=============================================================================
